---- MODULE Spec2Model ----
(***************************************************************************)
(* A model of the pascal-interpreter repository: the lexer, the direct     *)
(* interpreter of src/main.rs (with its read-eval-print loop) and the      *)
(* AST-building parser and node visitor of src/ast/ast.rs.                  *)
(*                                                                         *)
(* Text is a sequence of one-character strings (ASCII only, so that the    *)
(* byte length text.len() and the character index chars().nth(pos) agree). *)
(* Every method is an operator from the object's state to a record holding *)
(* the state after the call, the returned value and the panic raised, if   *)
(* any.  A panic unwinds: the caller returns the panic at once.            *)
(***************************************************************************)
EXTENDS Integers, Sequences, FiniteSets

VARIABLES
    pc,               \* where main (or the driver of the specification) stands
    overflow_checks,  \* the build profile: TRUE = debug (overflow panics), FALSE = release (wraps)
    text,             \* the line read by main / handed to Lexer::new
    lexer,            \* struct Lexer {text, pos, current_char}, or None
    current_token,    \* Interpreter.current_token / Parser.current_token, or None
    res,              \* the value returned by the last call, or None
    panic,            \* the panic that ended the evaluation, or NoPanic
    node,             \* ast.rs: the AST node returned by the parser / handed to the visitor
    calls             \* LexSpec: number of get_next_token calls made on the lexer

vars == <<pc, overflow_checks, text, lexer, current_token, res, panic, node, calls>>

-----------------------------------------------------------------------------
(* Bounds of the model *)

\* longest text enumerated exhaustively over Alphabet
MaxLen == 3
\* largest operand of the generated chains a op1 b op2 c
MaxOperand == 3
\* largest number of get_next_token calls the lexer driver makes
MaxCalls == 5
\* largest number of BinOp nodes in a tree handed to the visitor
MaxOps == 2

-----------------------------------------------------------------------------
(* enum OpType, struct Token *)

INTEGER == "INTEGER"
PLUS == "PLUS"
MINUS == "MINUS"
MUL == "MUL"
DIV == "DIV"
LPAREN == "LPAREN"
RPAREN == "RPAREN"
EOF == "EOF"

None == "None"

Token(op_type, value) == [op_type |-> op_type, value |-> value]

(* The panics of the program, named by their messages. *)
NoPanic == "no panic"
PanicUnknownChar == "unknown syntax {ch}"
PanicEat == "unknown syntax"
PanicFactor == "syntax error"
PanicParseInt == "called Result::unwrap() on an Err value: ParseIntError"
PanicUnwrapNone == "called Option::unwrap() on a None value"
PanicDivZero == "attempt to divide by zero"
PanicOverflow == "attempt to compute with overflow"
PanicErrorSyntax == "error syntax"

-----------------------------------------------------------------------------
(* i32 arithmetic.  TLC's integers are 32 bits wide and an overflow stops  *)
(* it, so every operation tests for overflow before it computes.           *)

I32_MAX == 2147483647
I32_MIN == -2147483647 - 1

AddOverflows(a, b) == \/ (b > 0 /\ a > I32_MAX - b)
                      \/ (b < 0 /\ a < I32_MIN - b)

\* a + b modulo 2^32, as a two's complement value
wrapping_add(a, b) ==
    IF b > 0 /\ a > I32_MAX - b THEN ((a - I32_MAX) - 1) + ((b - I32_MAX) - 1)
    ELSE IF b < 0 /\ a < I32_MIN - b THEN ((a + I32_MAX) + 1) + ((b + I32_MAX) + 1)
    ELSE a + b

wrapping_neg(a) == IF a = I32_MIN THEN I32_MIN ELSE -a

SubOverflows(a, b) == \/ (b < 0 /\ a > I32_MAX + b)
                      \/ (b > 0 /\ a < I32_MIN + b)

wrapping_sub(a, b) ==
    IF SubOverflows(a, b) THEN wrapping_add(a, wrapping_neg(b)) ELSE a - b

\* a * b for b >= 0, by doubling: [val, overflow], val being the product modulo 2^32
RECURSIVE MulAcc(_, _, _, _)
MulAcc(a, b, acc, overflow) ==
    IF b = 0 THEN [val |-> acc, overflow |-> overflow]
    ELSE MulAcc(wrapping_add(a, a),
                b \div 2,
                IF b % 2 = 1 THEN wrapping_add(acc, a) ELSE acc,
                \/ overflow
                \/ (b % 2 = 1 /\ AddOverflows(acc, a))
                \/ (b >= 2 /\ AddOverflows(a, a)))

MulNat(a, b) == MulAcc(a, b, 0, FALSE)

\* a * b for any b: a * b = (-a) * (-b), the two cases of I32_MIN apart
MulWide(a, b) ==
    IF b >= 0 THEN MulNat(a, b)
    ELSE IF b = I32_MIN
         THEN [val |-> IF a % 2 = 0 THEN 0 ELSE I32_MIN,
               overflow |-> a \notin {0, 1}]
    ELSE IF a = I32_MIN
         THEN [val |-> IF b % 2 = 0 THEN 0 ELSE I32_MIN, overflow |-> TRUE]
    ELSE MulNat(-a, -b)

\* the arithmetic operators of i32: [val, panic]
i32_add(a, b) ==
    IF AddOverflows(a, b) /\ overflow_checks
    THEN [val |-> None, panic |-> PanicOverflow]
    ELSE [val |-> wrapping_add(a, b), panic |-> NoPanic]

i32_sub(a, b) ==
    IF SubOverflows(a, b) /\ overflow_checks
    THEN [val |-> None, panic |-> PanicOverflow]
    ELSE [val |-> wrapping_sub(a, b), panic |-> NoPanic]

Checked(m) ==
    IF m.overflow /\ overflow_checks
    THEN [val |-> None, panic |-> PanicOverflow]
    ELSE [val |-> m.val, panic |-> NoPanic]

i32_mul(a, b) == Checked(MulWide(a, b))

\* 2^31 \div b for 0 < b
Pow31Div(b) == (I32_MAX \div b) + (IF (I32_MAX % b) + 1 = b THEN 1 ELSE 0)

\* mutant: the quotient rounded down
flooring_div(a, b) == a \div b

\* the quotient rounded toward zero, for b # 0 and (a, b) # (I32_MIN, -1)
truncating_div(a, b) ==
    IF b = I32_MIN THEN (IF a = I32_MIN THEN 1 ELSE 0)
    ELSE IF a = I32_MIN THEN (IF b > 0 THEN -Pow31Div(b) ELSE Pow31Div(-b))
    ELSE LET q == (IF a < 0 THEN -a ELSE a) \div (IF b < 0 THEN -b ELSE b)
         IN  IF (a < 0) = (b < 0) THEN q ELSE -q

\* division panics on a zero divisor and on I32_MIN / -1 in every build profile
i32_div(a, b) ==
    IF b = 0 THEN [val |-> None, panic |-> PanicDivZero]
    ELSE IF a = I32_MIN /\ b = -1 THEN [val |-> None, panic |-> PanicOverflow]
    ELSE [val |-> truncating_div(a, b), panic |-> NoPanic]

-----------------------------------------------------------------------------
(* char::is_digit(10), char::to_digit(10) and str::parse::<i32> *)

DigitSeq == <<"0", "1", "2", "3", "4", "5", "6", "7", "8", "9">>
DigitChars == {DigitSeq[i] : i \in 1..10}

is_digit(ch) == ch \in DigitChars

to_digit(ch) == (CHOOSE i \in 1..10 : DigitSeq[i] = ch) - 1

\* the digits of a non-negative literal, accumulated with checked_mul and checked_add
RECURSIVE parse_pos(_, _)
parse_pos(s, acc) ==
    IF s = <<>> THEN [ok |-> TRUE, val |-> acc]
    ELSE IF ~is_digit(Head(s)) THEN [ok |-> FALSE, val |-> None]
    ELSE LET d == to_digit(Head(s))
         IN  IF acc > (I32_MAX - d) \div 10 THEN [ok |-> FALSE, val |-> None]
             ELSE parse_pos(Tail(s), acc * 10 + d)

\* the digits of a negative literal, accumulated with checked_mul and checked_sub
RECURSIVE parse_neg(_, _)
parse_neg(s, acc) ==
    IF s = <<>> THEN [ok |-> TRUE, val |-> acc]
    ELSE IF ~is_digit(Head(s)) THEN [ok |-> FALSE, val |-> None]
    ELSE LET d == to_digit(Head(s))
         IN  IF acc < ((I32_MIN + d) + 9) \div 10 THEN [ok |-> FALSE, val |-> None]
             ELSE parse_neg(Tail(s), acc * 10 - d)

\* value.parse::<i32>(): Err on the empty string, a lone sign, a non-digit, an overflow
parse_i32(s) ==
    IF s = <<>> THEN [ok |-> FALSE, val |-> None]
    ELSE IF Head(s) \in {"+", "-"}
         THEN IF Len(s) = 1 THEN [ok |-> FALSE, val |-> None]
              ELSE IF Head(s) = "+" THEN parse_pos(Tail(s), 0)
              ELSE parse_neg(Tail(s), 0)
    ELSE parse_pos(s, 0)

-----------------------------------------------------------------------------
(* struct Lexer (the same code in src/main.rs and src/ast/ast.rs) *)

\* Lexer::new: text.chars().nth(0).unwrap() panics on the empty text
LexerNew(t) ==
    IF t = <<>> THEN [lexer |-> None, panic |-> PanicUnwrapNone]
    ELSE [lexer |-> [text |-> t, pos |-> 0, current_char |-> t[1]],
          panic |-> NoPanic]

advance(lx) ==
    IF lx.pos + 1 >= Len(lx.text)
    THEN [lx EXCEPT !.pos = lx.pos + 1, !.current_char = None]
    ELSE [lx EXCEPT !.pos = lx.pos + 1, !.current_char = lx.text[lx.pos + 2]]

RECURSIVE skip_space(_)
skip_space(lx) ==
    IF lx.current_char # None /\ lx.current_char = " "
    THEN skip_space(advance(lx))
    ELSE lx

\* [res, lexer]: the digit run at the cursor and the lexer past it
RECURSIVE integer_lexer_from(_, _)
integer_lexer_from(lx, acc) ==
    IF lx.current_char # None /\ is_digit(lx.current_char)
    THEN integer_lexer_from(advance(lx), Append(acc, lx.current_char))
    ELSE [res |-> acc, lexer |-> lx]

\* mutant: the scan takes one digit, not the whole run
integer_lexer_one_digit(lx) == [res |-> <<lx.current_char>>, lexer |-> advance(lx)]

integer_lexer(lx) == integer_lexer_from(lx, <<>>)

Returned(op_type, value, lx) ==
    [token |-> Token(op_type, value), lexer |-> lx, panic |-> NoPanic]

\* the arms of the match that scan one character: '+' '-' '*' '/' '(' ')'
SingleChars == {"+", "-", "*", "/", "(", ")"}

SingleCharType(ch) ==
    CASE ch = "+" -> PLUS
      [] ch = "-" -> MINUS
      [] ch = "*" -> MUL
      [] ch = "/" -> DIV
      [] ch = "(" -> LPAREN
      [] ch = ")" -> RPAREN

IntegerToken(r) == Returned(INTEGER, r.res, r.lexer)

RECURSIVE get_next_token(_)

\* mutant: a character outside the set ends the scan like a newline
get_next_token_lenient(lx) ==
    IF lx.current_char = None THEN Returned(EOF, <<>>, lx)
    ELSE IF is_digit(lx.current_char) THEN IntegerToken(integer_lexer(lx))
    ELSE IF lx.current_char = " " THEN get_next_token(skip_space(lx))
    ELSE IF lx.current_char \in SingleChars
         THEN Returned(SingleCharType(lx.current_char), <<lx.current_char>>, advance(lx))
    ELSE Returned(EOF, <<>>, lx)

\* mutant: the arm of the space leaves the loop instead of continuing it
get_next_token_break(lx) ==
    IF lx.current_char = None THEN Returned(EOF, <<>>, lx)
    ELSE IF is_digit(lx.current_char) THEN IntegerToken(integer_lexer(lx))
    ELSE IF lx.current_char = " " THEN Returned(EOF, <<>>, skip_space(lx))
    ELSE IF lx.current_char \in SingleChars
         THEN Returned(SingleCharType(lx.current_char), <<lx.current_char>>, advance(lx))
    ELSE IF lx.current_char = "\n" THEN Returned(EOF, <<>>, lx)
    ELSE [token |-> None, lexer |-> lx, panic |-> PanicUnknownChar]

\* mutant: the arm of the newline advances past it
get_next_token_past_newline(lx) ==
    IF lx.current_char = None THEN Returned(EOF, <<>>, lx)
    ELSE IF is_digit(lx.current_char) THEN IntegerToken(integer_lexer(lx))
    ELSE IF lx.current_char = " " THEN get_next_token(skip_space(lx))
    ELSE IF lx.current_char \in SingleChars
         THEN Returned(SingleCharType(lx.current_char), <<lx.current_char>>, advance(lx))
    ELSE IF lx.current_char = "\n" THEN Returned(EOF, <<>>, advance(lx))
    ELSE [token |-> None, lexer |-> lx, panic |-> PanicUnknownChar]

\* [token, lexer, panic]
get_next_token(lx) ==
    IF lx.current_char = None THEN Returned(EOF, <<>>, lx)
    ELSE IF is_digit(lx.current_char) THEN IntegerToken(integer_lexer(lx))
    ELSE IF lx.current_char = " " THEN get_next_token(skip_space(lx))
    ELSE IF lx.current_char \in SingleChars
         THEN Returned(SingleCharType(lx.current_char), <<lx.current_char>>, advance(lx))
    ELSE IF lx.current_char = "\n" THEN Returned(EOF, <<>>, lx)
    ELSE [token |-> None, lexer |-> lx, panic |-> PanicUnknownChar]

-----------------------------------------------------------------------------
(* struct Interpreter of src/main.rs: it = [lexer, current_token].  Every  *)
(* method returns [it, res, panic].                                        *)

Ok(it, r) == [it |-> it, res |-> r, panic |-> NoPanic]
Panicked(it, p) == [it |-> it, res |-> None, panic |-> p]

\* a panic unwinds through the caller; otherwise the caller goes on with the result
Bind(r, Continue(_)) == IF r.panic # NoPanic THEN r ELSE Continue(r)

\* the result of get_next_token stored as the current token
StoreToken(it, r) ==
    IF r.panic # NoPanic
    THEN Panicked([it EXCEPT !.lexer = r.lexer], r.panic)
    ELSE Ok([lexer |-> r.lexer, current_token |-> r.token], None)

\* Interpreter::new: the first token is scanned by the constructor
InterpreterNew(lx) ==
    StoreToken([lexer |-> lx, current_token |-> None], get_next_token(lx))

eat(it, op_type) ==
    IF it.current_token.op_type = op_type
    THEN StoreToken(it, get_next_token(it.lexer))
    ELSE Panicked(it, PanicEat)

\* .parse::<i32>().unwrap()
Unwrap(it, p) == IF p.ok THEN Ok(it, p.val) ELSE Panicked(it, PanicParseInt)

\* the outcome of an arithmetic operator as the result of the method
Computed(it, v) == IF v.panic # NoPanic THEN Panicked(it, v.panic) ELSE Ok(it, v.val)

RECURSIVE factor(_), term(_), term_loop(_, _), expr(_), expr_loop(_, _)

factor(it) ==
    IF it.current_token.op_type = INTEGER
    THEN Bind(Unwrap(it, parse_i32(it.current_token.value)),
              LAMBDA p : Bind(eat(it, INTEGER),
              LAMBDA e : Ok(e.it, p.res)))
    ELSE IF it.current_token.op_type = LPAREN
    THEN Bind(eat(it, LPAREN),
              LAMBDA e1 : Bind(expr(e1.it),
              LAMBDA r : Bind(eat(r.it, RPAREN),
              LAMBDA e2 : Ok(e2.it, r.res))))
    ELSE Panicked(it, PanicFactor)

\* the while loop of term, acc being the local res
term_loop(it, acc) ==
    IF it.current_token.op_type \in {MUL, DIV}
    THEN Bind(eat(it, it.current_token.op_type),
              LAMBDA e : Bind(factor(e.it),
              LAMBDA f : Bind(Computed(f.it, IF it.current_token.op_type = MUL
                                             THEN i32_mul(acc, f.res)
                                             ELSE i32_div(acc, f.res)),
              LAMBDA v : term_loop(v.it, v.res))))
    ELSE Ok(it, acc)

term(it) == Bind(factor(it), LAMBDA f : term_loop(f.it, f.res))

\* mutant: the operand of + and - is a factor, so that * and / bind no tighter
expr_loop_flat(it, acc) ==
    IF it.current_token.op_type \in {PLUS, MINUS}
    THEN Bind(eat(it, it.current_token.op_type),
              LAMBDA e : Bind(factor(e.it),
              LAMBDA t : Bind(Computed(t.it, IF it.current_token.op_type = PLUS
                                             THEN i32_add(acc, t.res)
                                             ELSE i32_sub(acc, t.res)),
              LAMBDA v : expr_loop(v.it, v.res))))
    ELSE Ok(it, acc)

\* mutant: the operand of + and - is the whole rest of the line, grouping to the right
expr_loop_right(it, acc) ==
    IF it.current_token.op_type \in {PLUS, MINUS}
    THEN Bind(eat(it, it.current_token.op_type),
              LAMBDA e : Bind(expr(e.it),
              LAMBDA t : Computed(t.it, IF it.current_token.op_type = PLUS
                                        THEN i32_add(acc, t.res)
                                        ELSE i32_sub(acc, t.res))))
    ELSE Ok(it, acc)

\* the while loop of expr, acc being the local res
expr_loop(it, acc) ==
    IF it.current_token.op_type \in {PLUS, MINUS}
    THEN Bind(eat(it, it.current_token.op_type),
              LAMBDA e : Bind(term(e.it),
              LAMBDA t : Bind(Computed(t.it, IF it.current_token.op_type = PLUS
                                             THEN i32_add(acc, t.res)
                                             ELSE i32_sub(acc, t.res)),
              LAMBDA v : expr_loop(v.it, v.res))))
    ELSE Ok(it, acc)

expr(it) == Bind(term(it), LAMBDA t : expr_loop(t.it, t.res))

\* Lexer::new as the first step of an evaluation
NewLexer(t) ==
    IF t = <<>>
    THEN Panicked([lexer |-> None, current_token |-> None], PanicUnwrapNone)
    ELSE Ok([lexer |-> LexerNew(t).lexer, current_token |-> None], None)

\* the body of main's loop on one line: Lexer::new, Interpreter::new, expr
evaluate(t) ==
    Bind(NewLexer(t),
         LAMBDA l : Bind(InterpreterNew(l.it.lexer),
         LAMBDA i : expr(i.it)))

-----------------------------------------------------------------------------
(* The lines main reads.  read_line returns the line with its newline, the *)
(* last line of the input without one, and the empty text at end of file.  *)

Alphabet == {"0", "2", "7", " ", "+", "-", "*", "/", "(", ")", "\n", "#"}

RECURSIVE ToDigits(_)
ToDigits(n) ==
    IF n < 10 THEN <<DigitSeq[n + 1]>>
    ELSE Append(ToDigits(n \div 10), DigitSeq[(n % 10) + 1])

OpChars == {"+", "-", "*", "/"}

\* a op1 b op2 c, plain and with either pair of operands parenthesised
ChainTexts ==
    UNION {
      { ToDigits(a) \o <<o1>> \o ToDigits(b) \o <<o2>> \o ToDigits(c),
        <<"(">> \o ToDigits(a) \o <<o1>> \o ToDigits(b) \o <<")">> \o <<o2>> \o ToDigits(c),
        ToDigits(a) \o <<o1>> \o <<"(">> \o ToDigits(b) \o <<o2>> \o ToDigits(c) \o <<")">> }
      : <<a, b, c, o1, o2>> \in
          (0..MaxOperand) \X (0..MaxOperand) \X (0..MaxOperand) \X OpChars \X OpChars }

\* the examples of the documentation, and lines whose values reach the ends of i32
LineTexts ==
    { <<"2", " ", "+", " ", "3", " ", "*", " ", "4">>,
      <<"(", "2", " ", "+", " ", "3", ")", " ", "*", " ", "4">>,
      <<"8", " ", "-", " ", "3", " ", "-", " ", "2">>,
      <<"8", " ", "/", " ", "4", " ", "/", " ", "2">>,
      <<"7", " ", "/", " ", "2">>,
      <<"7", " ", "/", " ", "0">>,
      <<"(", "2", " ", "+", " ", "3">>,
      <<"2", " ", "+", " ">>,
      <<"2", " ", "#", " ", "3">>,
      <<"2", "+", "3">>,
      <<" ", "2", " ", "+", " ", "3", " ">>,
      <<"2", " ", " ", "+", " ", " ", "3">>,
      <<"2", " ", "3", " ", "#">>,
      <<"2", " ", "+", " ", "3", "\n">>,
      <<"1", "2", "+", "3", "4", "\n", "7">>,
      <<"2", "1", "4", "7", "4", "8", "3", "6", "4", "7">>,
      <<"2", "1", "4", "7", "4", "8", "3", "6", "4", "8">>,
      <<"0", "0", "0", "0", "0", "0", "0", "0", "0", "0", "0", "1", "2">>,
      <<"9", "9", "9", "9", "9", "9", "9", "9", "9", "9", "9">>,
      <<"2", "1", "4", "7", "4", "8", "3", "6", "4", "7", "+", "1">>,
      <<"0", "-", "2", "1", "4", "7", "4", "8", "3", "6", "4", "7", "-", "2">>,
      <<"6", "5", "5", "3", "6", "*", "6", "5", "5", "3", "6">>,
      <<"6", "5", "5", "3", "6", "*", "3", "2", "7", "6", "8">>,
      <<"(", "0", "-", "6", "5", "5", "3", "6", ")", "*", "3", "2", "7", "6", "8">>,
      <<"(", "0", "-", "6", "5", "5", "3", "6", ")", "*", "3", "2", "7", "6", "9">>,
      <<"(", "0", "-", "2", "1", "4", "7", "4", "8", "3", "6", "4", "7", "-", "1", ")", "/", "(", "0", "-", "1", ")">>,
      <<"(", "0", "-", "2", "1", "4", "7", "4", "8", "3", "6", "4", "7", "-", "1", ")", "/", "2">>,
      <<"(", "0", "-", "7", ")", "/", "2">>,
      <<"7", "/", "(", "0", "-", "2", ")">>,
      <<"(", "0", "-", "7", ")", "/", "(", "0", "-", "2", ")">>,
      <<"(", "0", "-", "2", "1", "4", "7", "4", "8", "3", "6", "4", "7", "-", "1", ")", "*", "(", "0", "-", "1", ")">> }

\* the lines read: every text of at most MaxLen characters over Alphabet, the chains
\* and the lines above
IsInput(t) ==
    \/ \E n \in 0..MaxLen : t \in [1..n -> Alphabet]
    \/ t \in ChainTexts
    \/ t \in LineTexts

-----------------------------------------------------------------------------
(* main of src/main.rs: prompt, read a line, evaluate it, print, loop.     *)
(* A panic ends the process.                                               *)

Init ==
    /\ pc = "prompt"
    /\ overflow_checks \in BOOLEAN
    /\ text = None
    /\ lexer = None
    /\ current_token = None
    /\ res = None
    /\ panic = NoPanic
    /\ node = None
    /\ calls = 0

ReadLine ==
    /\ pc = "prompt"
    /\ IsInput(text')
    /\ pc' = "lexer_new"
    /\ UNCHANGED <<overflow_checks, lexer, current_token, res, panic, node, calls>>

MainLexerNew ==
    /\ pc = "lexer_new"
    /\ LET l == LexerNew(text)
       IN  /\ lexer' = l.lexer
           /\ panic' = l.panic
           /\ pc' = IF l.panic # NoPanic THEN "panicked" ELSE "interpreter_new"
    /\ UNCHANGED <<overflow_checks, text, current_token, res, node, calls>>

MainInterpreterNew ==
    /\ pc = "interpreter_new"
    /\ LET i == InterpreterNew(lexer)
       IN  /\ lexer' = i.it.lexer
           /\ current_token' = i.it.current_token
           /\ panic' = i.panic
           /\ pc' = IF i.panic # NoPanic THEN "panicked" ELSE "expr"
    /\ UNCHANGED <<overflow_checks, text, res, node, calls>>

MainExpr ==
    /\ pc = "expr"
    /\ LET r == expr([lexer |-> lexer, current_token |-> current_token])
       IN  /\ lexer' = r.it.lexer
           /\ current_token' = r.it.current_token
           /\ res' = r.res
           /\ panic' = r.panic
           /\ pc' = IF r.panic # NoPanic THEN "panicked" ELSE "print"
    /\ UNCHANGED <<overflow_checks, text, node, calls>>

\* print!("{}\n", res); the locals of the loop body are dropped
PrintResult ==
    /\ pc = "print"
    /\ pc' = "prompt"
    /\ text' = None
    /\ lexer' = None
    /\ current_token' = None
    /\ res' = None
    /\ UNCHANGED <<overflow_checks, panic, node, calls>>

Next == ReadLine \/ MainLexerNew \/ MainInterpreterNew \/ MainExpr \/ PrintResult

Spec == Init /\ [][Next]_vars

-----------------------------------------------------------------------------
(* The lexer driven on its own: Lexer::new, then get_next_token again and  *)
(* again, also after it has returned EOF.                                   *)

LexInit ==
    /\ pc = "lexer_new"
    /\ overflow_checks \in BOOLEAN
    /\ IsInput(text)
    /\ lexer = None
    /\ current_token = None
    /\ res = None
    /\ panic = NoPanic
    /\ node = None
    /\ calls = 0

LexLexerNew ==
    /\ pc = "lexer_new"
    /\ lexer' = LexerNew(text).lexer
    /\ panic' = LexerNew(text).panic
    /\ pc' = IF text = <<>> THEN "panicked" ELSE "lexing"
    /\ UNCHANGED <<overflow_checks, text, current_token, res, node, calls>>

\* current_token holds the token the call returned
GetNextToken ==
    /\ pc = "lexing"
    /\ calls < MaxCalls
    /\ LET r == get_next_token(lexer)
       IN  /\ lexer' = r.lexer
           /\ current_token' = r.token
           /\ panic' = r.panic
           /\ pc' = IF r.panic # NoPanic THEN "panicked" ELSE "lexing"
    /\ calls' = calls + 1
    /\ UNCHANGED <<overflow_checks, text, res, node>>

LexNext == LexLexerNew \/ GetNextToken

LexSpec == LexInit /\ [][LexNext]_vars

-----------------------------------------------------------------------------
(* src/ast/ast.rs: the AST nodes, struct Parser and the node visitor.      *)

Num(op_type, value) == [kind |-> "Num", op_type |-> op_type, value |-> value]
BinOp(op_type, left, right) ==
    [kind |-> "BinOp", op_type |-> op_type, left |-> left, right |-> right]

\* trait AstNode: the defaults return None, BinOp and Num override their own
\* Option<T>
Some(x) == [some |-> TRUE, val |-> x]
IsNone == [some |-> FALSE, val |-> None]

get_op_type(n) == n.op_type
get_left(n) == IF n.kind = "BinOp" THEN Some(n.left) ELSE IsNone
get_right(n) == IF n.kind = "BinOp" THEN Some(n.right) ELSE IsNone
get_value(n) == IF n.kind = "Num" THEN Some(n.value) ELSE IsNone

\* Parser::new: the first token is scanned by the constructor
Parser_new(lx) ==
    StoreToken([lexer |-> lx, current_token |-> None], get_next_token(lx))

Parser_eat(pa, op_type) ==
    IF pa.current_token.op_type = op_type
    THEN StoreToken(pa, get_next_token(pa.lexer))
    ELSE Panicked(pa, PanicEat)

RECURSIVE Parser_factor(_), Parser_term(_), Parser_term_loop(_, _),
          Parser_expr(_), Parser_expr_loop(_, _)

\* the Num is built from self.current_token after eat has replaced it
Parser_factor(pa) ==
    IF pa.current_token.op_type = INTEGER
    THEN Bind(Parser_eat(pa, INTEGER),
              LAMBDA e : Bind(Unwrap(e.it, parse_i32(e.it.current_token.value)),
              LAMBDA p : Ok(e.it, Num(e.it.current_token.op_type, p.res))))
    ELSE IF pa.current_token.op_type = LPAREN
    THEN Bind(Parser_eat(pa, LPAREN),
              LAMBDA e1 : Bind(Parser_expr(e1.it),
              LAMBDA r : Bind(Parser_eat(r.it, RPAREN),
              LAMBDA e2 : Ok(e2.it, r.res))))
    ELSE Panicked(pa, PanicFactor)

\* the while loop of term; op_type is read from self.current_token after eat
Parser_term_loop(pa, n) ==
    IF pa.current_token.op_type \in {MUL, DIV}
    THEN Bind(Parser_eat(pa, pa.current_token.op_type),
              LAMBDA e : Bind(Parser_factor(e.it),
              LAMBDA f : Parser_term_loop(f.it,
                             BinOp(e.it.current_token.op_type, n, f.res))))
    ELSE Ok(pa, n)

Parser_term(pa) == Bind(Parser_factor(pa), LAMBDA f : Parser_term_loop(f.it, f.res))

\* the while loop of expr; op_type is read from self.current_token after eat
Parser_expr_loop(pa, n) ==
    IF pa.current_token.op_type \in {PLUS, MINUS}
    THEN Bind(Parser_eat(pa, pa.current_token.op_type),
              LAMBDA e : Bind(Parser_term(e.it),
              LAMBDA t : Parser_expr_loop(t.it,
                             BinOp(e.it.current_token.op_type, n, t.res))))
    ELSE Ok(pa, n)

Parser_expr(pa) == Bind(Parser_term(pa), LAMBDA t : Parser_expr_loop(t.it, t.res))

\* NodeVisitor::visit, the default method Interpreter inherits: it returns 0
visit(n) == [val |-> 0, panic |-> NoPanic]

\* the operands of a binary operator, left first; a panic in either unwinds
Operands(l, r, Op(_, _)) ==
    IF l.panic # NoPanic THEN l
    ELSE IF r.panic # NoPanic THEN r
    ELSE Op(l.val, r.val)

\* get_left().unwrap() and get_right().unwrap() panic on a node without children
Child(c) == IF c.some THEN visit(c.val) ELSE [val |-> None, panic |-> PanicUnwrapNone]

visit_BinOp(n) ==
    IF get_op_type(n) = PLUS
    THEN Operands(Child(get_left(n)), Child(get_right(n)), i32_add)
    ELSE IF get_op_type(n) = MINUS
    THEN Operands(Child(get_left(n)), Child(get_right(n)), i32_sub)
    ELSE IF get_op_type(n) = MUL
    THEN Operands(Child(get_left(n)), Child(get_right(n)), i32_mul)
    ELSE IF get_op_type(n) = DIV
    THEN Operands(Child(get_left(n)), Child(get_right(n)), i32_div)
    ELSE [val |-> None, panic |-> PanicErrorSyntax]

visit_Num(n) ==
    IF get_value(n).some THEN [val |-> get_value(n).val, panic |-> NoPanic]
    ELSE [val |-> None, panic |-> PanicUnwrapNone]

-----------------------------------------------------------------------------
(* The parser of src/ast/ast.rs driven on a line: Lexer::new, Parser::new, *)
(* then one of its methods.                                                *)

AstInit ==
    /\ pc = "lexer_new"
    /\ overflow_checks \in BOOLEAN
    /\ IsInput(text)
    /\ lexer = None
    /\ current_token = None
    /\ res = None
    /\ panic = NoPanic
    /\ node = None
    /\ calls = 0

AstLexerNew ==
    /\ pc = "lexer_new"
    /\ lexer' = LexerNew(text).lexer
    /\ panic' = LexerNew(text).panic
    /\ pc' = IF text = <<>> THEN "panicked" ELSE "parser_new"
    /\ UNCHANGED <<overflow_checks, text, current_token, res, node, calls>>

ParserNew ==
    /\ pc = "parser_new"
    /\ LET r == Parser_new(lexer)
       IN  /\ lexer' = r.it.lexer
           /\ current_token' = r.it.current_token
           /\ panic' = r.panic
           /\ pc' = IF r.panic # NoPanic THEN "panicked" ELSE "parser"
    /\ UNCHANGED <<overflow_checks, text, res, node, calls>>

\* a method of the parser has returned r
Parsed(r, done) ==
    /\ lexer' = r.it.lexer
    /\ current_token' = r.it.current_token
    /\ node' = r.res
    /\ panic' = r.panic
    /\ pc' = IF r.panic # NoPanic THEN "panicked" ELSE done
    /\ UNCHANGED <<overflow_checks, text, res, calls>>

ParserFactor ==
    /\ pc = "parser"
    /\ Parsed(Parser_factor([lexer |-> lexer, current_token |-> current_token]),
              "factor_done")

ParserTerm ==
    /\ pc = "parser"
    /\ Parsed(Parser_term([lexer |-> lexer, current_token |-> current_token]),
              "term_done")

ParserExpr ==
    /\ pc = "parser"
    /\ Parsed(Parser_expr([lexer |-> lexer, current_token |-> current_token]),
              "expr_done")

AstNext == AstLexerNew \/ ParserNew \/ ParserFactor \/ ParserTerm \/ ParserExpr

AstSpec == AstInit /\ [][AstNext]_vars

-----------------------------------------------------------------------------
(* The visitor of src/ast/ast.rs applied to a tree.                        *)

BinaryOps == {PLUS, MINUS, MUL, DIV}

LeafValues == {0, 1, 2}

\* the trees with exactly n BinOp nodes over the leaves Num(INTEGER, v), v a leaf value
RECURSIVE TreesOf(_)
TreesOf(n) ==
    IF n = 0 THEN {Num(INTEGER, v) : v \in LeafValues}
    ELSE UNION { {BinOp(op, l, r) : op \in BinaryOps, l \in TreesOf(k), r \in TreesOf((n - 1) - k)}
                 : k \in 0..(n - 1) }

VisitInit ==
    /\ pc = "visit"
    /\ overflow_checks \in BOOLEAN
    /\ text = None
    /\ lexer = None
    /\ current_token = None
    /\ res = None
    /\ panic = NoPanic
    /\ \E n \in 0..MaxOps : node \in TreesOf(n)
    /\ calls = 0

\* a method of the visitor has returned v
Visited(v, done) ==
    /\ res' = v.val
    /\ panic' = v.panic
    /\ pc' = IF v.panic # NoPanic THEN "panicked" ELSE done
    /\ UNCHANGED <<overflow_checks, text, lexer, current_token, node, calls>>

Visit ==
    /\ pc = "visit"
    /\ Visited(visit(node), "visited")

VisitBinOp ==
    /\ pc = "visit"
    /\ Visited(visit_BinOp(node), "visited_BinOp")

VisitNum ==
    /\ pc = "visit"
    /\ Visited(visit_Num(node), "visited_Num")

VisitNext == Visit \/ VisitBinOp \/ VisitNum

VisitSpec == VisitInit /\ [][VisitNext]_vars

-----------------------------------------------------------------------------
(* Reference semantics the properties are stated against: the value of a   *)
(* digit run by position, the grammar by splitting at the last operator    *)
(* outside parentheses, the quotient by its defining inequalities.         *)

\* main has evaluated the line: it is about to print, or the process has panicked
Done == pc \in {"print", "panicked"}

RefDigit(c) ==
    CASE c = "0" -> 0 [] c = "1" -> 1 [] c = "2" -> 2 [] c = "3" -> 3 [] c = "4" -> 4
      [] c = "5" -> 5 [] c = "6" -> 6 [] c = "7" -> 7 [] c = "8" -> 8 [] c = "9" -> 9

IsDigitRun(d) == d # <<>> /\ \A i \in 1..Len(d) : d[i] \in DigitChars

RECURSIVE StripZeros(_)
StripZeros(d) == IF Len(d) > 1 /\ Head(d) = "0" THEN StripZeros(Tail(d)) ELSE d

\* a <= b for digit runs of one length
RECURSIVE DigitsLeq(_, _)
DigitsLeq(a, b) ==
    \/ a = <<>>
    \/ RefDigit(Head(a)) < RefDigit(Head(b))
    \/ (Head(a) = Head(b) /\ DigitsLeq(Tail(a), Tail(b)))

LargestI32Digits == <<"2", "1", "4", "7", "4", "8", "3", "6", "4", "7">>

\* the number the digit run denotes is at most 2^31 - 1
FitsI32(d) ==
    \/ Len(StripZeros(d)) < 10
    \/ (Len(StripZeros(d)) = 10 /\ DigitsLeq(StripZeros(d), LargestI32Digits))

RECURSIVE Pow10(_)
Pow10(n) == IF n = 0 THEN 1 ELSE 10 * Pow10(n - 1)

RECURSIVE PositionalValue(_)
PositionalValue(d) ==
    IF d = <<>> THEN 0
    ELSE RefDigit(Head(d)) * Pow10(Len(d) - 1) + PositionalValue(Tail(d))

\* integer_value(d), for a digit run that fits
RefInt(d) == PositionalValue(StripZeros(d))

\* the tokens of a text up to end-of-input; ok is FALSE when the scan panics
RECURSIVE TokensFrom(_, _)
TokensFrom(lx, acc) ==
    LET r == get_next_token(lx)
    IN  IF r.panic # NoPanic THEN [ok |-> FALSE, toks |-> acc]
        ELSE IF r.token.op_type = EOF THEN [ok |-> TRUE, toks |-> acc]
        ELSE TokensFrom(r.lexer, Append(acc, r.token))

TokenStream(t) ==
    IF t = <<>> THEN [ok |-> TRUE, toks |-> <<>>]
    ELSE TokensFrom(LexerNew(t).lexer, <<>>)

CountOf(ts, ty, n) == Cardinality({j \in 1..n : ts[j].op_type = ty})

\* token i stands outside every pair of parentheses
AtTop(ts, i) == CountOf(ts, LPAREN, i - 1) = CountOf(ts, RPAREN, i - 1)

\* the last token of one of the types outside parentheses, or 0
LastTop(ts, types) ==
    LET P == {i \in 1..Len(ts) : ts[i].op_type \in types /\ AtTop(ts, i)}
    IN  IF P = {} THEN 0 ELSE CHOOSE i \in P : \A j \in P : j <= i

Before(ts, i) == SubSeq(ts, 1, i - 1)
After(ts, i) == SubSeq(ts, i + 1, Len(ts))
Inside(ts) == SubSeq(ts, 2, Len(ts) - 1)

\* ts is a sentence of expr := term (('+'|'-') term)*, and so on
RECURSIVE RefExprOK(_), RefTermOK(_), RefFactorOK(_)
RefExprOK(ts) ==
    LET i == LastTop(ts, {PLUS, MINUS})
    IN  IF i = 0 THEN RefTermOK(ts)
        ELSE RefExprOK(Before(ts, i)) /\ RefTermOK(After(ts, i))

RefTermOK(ts) ==
    LET i == LastTop(ts, {MUL, DIV})
    IN  IF i = 0 THEN RefFactorOK(ts)
        ELSE RefTermOK(Before(ts, i)) /\ RefFactorOK(After(ts, i))

RefFactorOK(ts) ==
    \/ (Len(ts) = 1 /\ ts[1].op_type = INTEGER)
    \/ (/\ Len(ts) >= 3
        /\ ts[1].op_type = LPAREN
        /\ ts[Len(ts)].op_type = RPAREN
        /\ RefExprOK(Inside(ts)))

\* q is a / b rounded toward zero: the remainder has the sign of a and is smaller than b
IsTruncQuotient(q, a, b) ==
    LET r == a - q * b
    IN  /\ (a >= 0 => r >= 0)
        /\ (a <= 0 => r <= 0)
        /\ IF b > 0 THEN (-b < r /\ r < b) ELSE (b < r /\ b < -r)

Magnitude(a) == IF a < 0 THEN -a ELSE a

RefQuot(a, b) == CHOOSE q \in (-Magnitude(a))..Magnitude(a) : IsTruncQuotient(q, a, b)

Defined(v) == [ok |-> TRUE, val |-> v]
Undefined == [ok |-> FALSE, val |-> 0]

\* the operator applied to two values in the integers; a quotient by zero is undefined
RefApply(op, l, r) ==
    IF ~l.ok \/ ~r.ok THEN Undefined
    ELSE CASE op = PLUS  -> Defined(l.val + r.val)
           [] op = MINUS -> Defined(l.val - r.val)
           [] op = MUL   -> Defined(l.val * r.val)
           [] op = DIV   -> IF r.val = 0 THEN Undefined ELSE Defined(RefQuot(l.val, r.val))

\* the value of a sentence: * and / bind tighter than + and -, each level groups to the left
RECURSIVE RefExpr(_), RefTerm(_), RefFactor(_)
RefExpr(ts) ==
    LET i == LastTop(ts, {PLUS, MINUS})
    IN  IF i = 0 THEN RefTerm(ts)
        ELSE RefApply(ts[i].op_type, RefExpr(Before(ts, i)), RefTerm(After(ts, i)))

RefTerm(ts) ==
    LET i == LastTop(ts, {MUL, DIV})
    IN  IF i = 0 THEN RefFactor(ts)
        ELSE RefApply(ts[i].op_type, RefTerm(Before(ts, i)), RefFactor(After(ts, i)))

RefFactor(ts) ==
    IF Len(ts) = 1 THEN Defined(RefInt(ts[1].value)) ELSE RefExpr(Inside(ts))

\* at most four operands of at most two digits: every value stays far inside i32
BoundedOperands(ts) ==
    /\ Cardinality({i \in 1..Len(ts) : ts[i].op_type = INTEGER}) <= 4
    /\ \A i \in 1..Len(ts) : ts[i].op_type = INTEGER => Len(ts[i].value) <= 2

-----------------------------------------------------------------------------
(* Properties of main (specification Spec) *)

\* C1: on a well-formed line over integer literals, + - * / and parentheses
\* (bounded operands, no division by zero) main prints the value in which * and /
\* bind tighter than + and - and a parenthesised sub-expression is evaluated as a unit.
C1_Precedence ==
    Done =>
        LET ts == TokenStream(text)
        IN  (/\ ts.ok
             /\ BoundedOperands(ts.toks)
             /\ RefExprOK(ts.toks)
             /\ RefExpr(ts.toks).ok)
            => (pc = "print" /\ res = RefExpr(ts.toks).val)

C1_Witness ==
    /\ pc = "print"
    /\ text = <<"2", " ", "+", " ", "3", " ", "*", " ", "4">>
    /\ res = 14

\* the line is a op1 b op2 c with both operators of one precedence level
IsChain(ts) ==
    /\ Len(ts) = 5
    /\ ts[1].op_type = INTEGER /\ ts[3].op_type = INTEGER /\ ts[5].op_type = INTEGER
    /\ \/ {ts[2].op_type, ts[4].op_type} \subseteq {PLUS, MINUS}
       \/ {ts[2].op_type, ts[4].op_type} \subseteq {MUL, DIV}

Operand(ts, i) == Defined(RefInt(ts[i].value))

\* (a op1 b) op2 c
LeftGrouped(ts) ==
    RefApply(ts[4].op_type, RefApply(ts[2].op_type, Operand(ts, 1), Operand(ts, 3)),
             Operand(ts, 5))

\* C2: on a chain a op1 b op2 c of operators of one precedence level main prints
\* the value of (a op1 b) op2 c; where that grouping divides by zero, it panics
\* with the division by zero.
C2_LeftAssociative ==
    Done =>
        LET ts == TokenStream(text)
        IN  (ts.ok /\ IsChain(ts.toks) /\ BoundedOperands(ts.toks))
            => IF LeftGrouped(ts.toks).ok
               THEN pc = "print" /\ res = LeftGrouped(ts.toks).val
               ELSE pc = "panicked" /\ panic = PanicDivZero

C2_Witness ==
    /\ pc = "print"
    /\ text = <<"8", " ", "-", " ", "3", " ", "-", " ", "2">>
    /\ res = 3

\* the line is one digit run, with or without its newline
DigitLine(t) ==
    IF t # <<>> /\ t[Len(t)] = "\n" THEN SubSeq(t, 1, Len(t) - 1) ELSE t

\* C3 as stated: for every digit run d given as the whole line, main prints
\* integer_value(d) (an i32 equals integer_value(d) only if d fits).
C3_Original ==
    (Done /\ IsDigitRun(DigitLine(text)))
    => (/\ pc = "print"
        /\ FitsI32(DigitLine(text))
        /\ res = RefInt(DigitLine(text)))

\* C3 amended: for every digit run d that denotes at most 2^31 - 1 main prints
\* integer_value(d), leading zeros included; for a larger one the conversion of the
\* token's text fails and the process panics.
C3_DigitsWithinI32 ==
    (Done /\ IsDigitRun(DigitLine(text)))
    => IF FitsI32(DigitLine(text))
       THEN pc = "print" /\ res = RefInt(DigitLine(text))
       ELSE pc = "panicked" /\ panic = PanicParseInt

C3_Witness ==
    /\ pc = "print"
    /\ text = <<"0", "0", "0", "0", "0", "0", "0", "0", "0", "0", "0", "1", "2">>
    /\ res = 12
    /\ current_token.op_type = EOF

\* the panics that report a syntax error: the mismatch in eat, the token that starts
\* no factor and, the text being empty where a factor is required, that of Lexer::new
SyntaxPanics == {PanicEat, PanicFactor, PanicUnwrapNone}

\* C4 as stated: on every line whose tokens up to end-of-input are not a sentence of
\* expr := term (('+'|'-') term)* (a missing operand, an unmatched parenthesis, tokens
\* left over after a complete expression, no token at all) the evaluation fails with
\* a syntax error and prints no integer.
C4_SyntaxErrorOnEveryNonSentence ==
    Done =>
        LET ts == TokenStream(text)
        IN  (ts.ok /\ ~RefExprOK(ts.toks))
            => (pc = "panicked" /\ panic \in SyntaxPanics)

CountChar(t, c, n) == Cardinality({j \in 1..n : t[j] = c})

\* the operator characters of the text outside every pair of parentheses
TopOps(t) ==
    {i \in 1..Len(t) : /\ t[i] \in OpChars
                       /\ CountChar(t, "(", i - 1) = CountChar(t, ")", i - 1)}

\* a text that is one factor: a literal or a parenthesised expression
FactorText(t) ==
    /\ t # <<>>
    /\ TokenStream(t).ok
    /\ RefFactorOK(TokenStream(t).toks)

\* the text up to its first newline, which is all that the lexer scans
Line(t) ==
    IF \E j \in 1..Len(t) : t[j] = "\n"
    THEN SubSeq(t, 1, (CHOOSE j \in 1..Len(t) : t[j] = "\n" /\ \A k \in 1..(j - 1) : t[k] # "\n") - 1)
    ELSE t

\* the line is L / R, both operands factors
IsDivision(t) ==
    /\ Cardinality(TopOps(t)) = 1
    /\ \A i \in TopOps(t) : /\ t[i] = "/"
                            /\ FactorText(SubSeq(t, 1, i - 1))
                            /\ FactorText(SubSeq(t, i + 1, Len(t)))

Dividend(t) == evaluate(SubSeq(t, 1, (CHOOSE i \in TopOps(t) : TRUE) - 1))
Divisor(t) == evaluate(SubSeq(t, (CHOOSE i \in TopOps(t) : TRUE) + 1, Len(t)))

OperandsEvaluate(t) == Dividend(t).panic = NoPanic /\ Divisor(t).panic = NoPanic

\* C5 as stated: a division whose right operand evaluates to a non-zero value yields
\* the quotient truncated toward zero; one whose right operand evaluates to zero
\* fails with the division by zero and prints no integer.
C5_Original ==
    (Done /\ IsDivision(Line(text)) /\ OperandsEvaluate(Line(text)))
    => IF Divisor(Line(text)).res # 0
       THEN pc = "print" /\ IsTruncQuotient(res, Dividend(Line(text)).res, Divisor(Line(text)).res)
       ELSE pc = "panicked" /\ panic = PanicDivZero

\* C5 amended: a division whose right operand evaluates to a non-zero value yields the
\* quotient truncated toward zero, except -2^31 / -1, whose quotient is no i32: it
\* panics with an overflow; a division whose right operand evaluates to zero panics
\* with the division by zero and prints no integer.
C5_Division ==
    (Done /\ IsDivision(Line(text)) /\ OperandsEvaluate(Line(text)))
    => IF Divisor(Line(text)).res = 0
       THEN pc = "panicked" /\ panic = PanicDivZero /\ res = None
       ELSE IF Dividend(Line(text)).res = I32_MIN /\ Divisor(Line(text)).res = -1
       THEN pc = "panicked" /\ panic = PanicOverflow /\ res = None
       ELSE pc = "print" /\ IsTruncQuotient(res, Dividend(Line(text)).res, Divisor(Line(text)).res)

C5_Witness ==
    /\ pc = "print"
    /\ text = <<"7", " ", "/", " ", "2">>
    /\ res = 3

\* the characters the lexer knows
Known == DigitChars \cup SingleChars \cup {" ", "\n"}

\* the characters outside that set which stand before the first newline
UnknownAt(t) ==
    {i \in 1..Len(t) : t[i] \notin Known /\ \A j \in 1..(i - 1) : t[j] # "\n"}

FirstUnknown(t) == CHOOSE i \in UnknownAt(t) : \A j \in UnknownAt(t) : i <= j

\* C6 as stated: a line with a character outside the set before its first newline
\* fails with the unknown-character panic and prints no integer.
C6_Original ==
    (Done /\ UnknownAt(text) # {})
    => (pc = "panicked" /\ panic = PanicUnknownChar)

\* the text before the first unknown character
KnownPrefix(t) == SubSeq(t, 1, FirstUnknown(t) - 1)

\* evaluating the text consumes every one of its tokens: end-of-input becomes the
\* current token (the empty text has no token to consume)
ConsumesAll(t) ==
    \/ t = <<>>
    \/ evaluate(t).it.current_token.op_type = EOF

\* C6 amended: a line with a character outside the set before its first newline fails
\* with the unknown-character panic exactly when the lexer is asked for a token at
\* that character, that is when the parser consumes every token before it; the lexer
\* then stands on the character and has produced no token for it.  When the parser
\* stops earlier, the character is never scanned and the outcome is that of the text
\* before the character.
C6_UnknownCharacterWhenScanned ==
    (Done /\ UnknownAt(text) # {})
    => IF ConsumesAll(KnownPrefix(text))
       THEN /\ pc = "panicked"
            /\ panic = PanicUnknownChar
            /\ res = None
            /\ lexer.pos = FirstUnknown(text) - 1
            /\ lexer.current_char = text[FirstUnknown(text)]
       ELSE /\ panic = evaluate(KnownPrefix(text)).panic
            /\ panic = NoPanic => res = evaluate(KnownPrefix(text)).res
            /\ lexer.pos < FirstUnknown(text)

C6_Witness ==
    /\ pc = "panicked"
    /\ text = <<"2", " ", "#", " ", "3">>
    /\ panic = PanicUnknownChar
    /\ lexer.pos = 2

\* a space may be put after the first i characters: not between two digits of a run
Gap(t, i) == ~(i >= 1 /\ i < Len(t) /\ t[i] \in DigitChars /\ t[i + 1] \in DigitChars)

WithSpace(t, i) == SubSeq(t, 1, i) \o <<" ">> \o SubSeq(t, i + 1, Len(t))

\* the kind of an outcome: the syntax panics are one kind of error
ErrorKind(p) == IF p \in SyntaxPanics THEN "SyntaxError" ELSE p

SameOutcome(r) == ErrorKind(r.panic) = ErrorKind(panic) /\ (panic = NoPanic => r.res = res)

\* C7: a space put before the first token, between two tokens or after the last one
\* (never inside a digit run) leaves the outcome unchanged: the same integer or the
\* same kind of panic, and on a text that is not empty the very same panic.  Removing
\* such a space is the same step backwards, and any number of spaces is that step
\* repeated.
C7_WhitespaceInsensitive ==
    Done =>
        \A i \in 0..Len(text) :
            Gap(text, i) => /\ SameOutcome(evaluate(WithSpace(text, i)))
                            /\ text # <<>> => evaluate(WithSpace(text, i)).panic = panic

C7_Witness ==
    /\ pc = "print"
    /\ text = <<"2", " ", " ", "+", " ", " ", "3">>
    /\ res = 5
    /\ SameOutcome(evaluate(<<"2", "+", "3">>))

-----------------------------------------------------------------------------
(* Properties of the lexer (specification LexSpec) *)

\* C8: once get_next_token has returned an end-of-input token (the text exhausted, or
\* the cursor on a newline), every later call returns an end-of-input token again,
\* never another kind and never a panic; and no call moves the cursor backwards.
C8_EofAbsorbing ==
    [][ pc = "lexing" =>
          /\ lexer'.pos >= lexer.pos
          /\ (calls > 0 /\ current_token.op_type = EOF)
                => (panic' = NoPanic /\ current_token'.op_type = EOF) ]_vars

C8_Witness ==
    /\ pc = "lexing"
    /\ text = <<"2", "\n", "7">>
    /\ calls = 4
    /\ current_token.op_type = EOF
    /\ lexer.current_char = "\n"
    /\ lexer.pos = 1

-----------------------------------------------------------------------------
(* Properties of the visitor (specification VisitSpec) *)

\* the value of a tree in the integers
RECURSIVE RefTree(_)
RefTree(n) ==
    IF n.kind = "Num" THEN Defined(n.value)
    ELSE RefApply(n.op_type, RefTree(n.left), RefTree(n.right))

\* C9 as stated: visiting a tree returns its value: a Literal node its stored value, a
\* BinaryOp node the values of its two children combined by its operator.
C9_VisitReducesTree ==
    /\ (pc = "visited" /\ RefTree(node).ok) => res = RefTree(node).val
    /\ (pc = "visited_Num") => res = node.value
    /\ (pc = "visited_BinOp" /\ RefTree(node).ok) => res = RefTree(node).val

-----------------------------------------------------------------------------
(* Properties of the AST-building parser (specification AstSpec) *)

RECURSIVE LeftmostLeaf(_)
LeftmostLeaf(n) == IF n.kind = "Num" THEN n ELSE LeftmostLeaf(n.left)

\* every BinOp of the tree carries an operator, every Num the tag of a literal
RECURSIVE TagsOK(_)
TagsOK(n) ==
    IF n.kind = "Num" THEN n.op_type = INTEGER
    ELSE n.op_type \in BinaryOps /\ TagsOK(n.left) /\ TagsOK(n.right)

\* C10 as stated: every node records the token consumed to produce it.  A method of
\* the parser entered on an integer-literal token returns a tree whose first Literal
\* holds the integer value of that token's text, and whose BinaryOp nodes carry the
\* kinds of the operators consumed.
C10_NodesRecordConsumedToken ==
    [][ (/\ pc = "parser"
         /\ pc' \in {"factor_done", "term_done", "expr_done"}
         /\ current_token.op_type = INTEGER
         /\ FitsI32(current_token.value))
        => (/\ LeftmostLeaf(node') = Num(INTEGER, RefInt(current_token.value))
            /\ TagsOK(node')) ]_vars

====
